---------------------------- MODULE Spec2Model ----------------------------
(***************************************************************************)
(* NeuroCLI: the mediation layer between a free-form AI response and       *)
(* (a) OS process execution, (b) a conventional-commit message.            *)
(*                                                                         *)
(* Strings are sequences of one-character strings, so that the Go string   *)
(* functions (TrimSpace, Fields, Split, HasPrefix, ...) and the regular    *)
(* expressions are computed character by character.  The backtick cannot   *)
(* be written in a string literal; it is the token BT.                     *)
(***************************************************************************)
EXTENDS Integers, Sequences, FiniteSets, TLC

(***************************************************************************)
(* Strings (Go package strings, restricted to ASCII)                       *)
(***************************************************************************)
Chars(s) == [i \in 1..Len(s) |-> SubSeq(s, i, i)]

BT == "backtick"

Fence == <<BT, BT, BT>>

NL == "\n"

SpaceChars == {" ", "\t", "\n", "\r", "\f"}

IsSpace(c) == c \in SpaceChars

LowerCase == Chars("abcdefghijklmnopqrstuvwxyz")

UpperCase == Chars("ABCDEFGHIJKLMNOPQRSTUVWXYZ")

Digits == Chars("0123456789")

Range(f) == {f[i] : i \in DOMAIN f}

SetMin(S) == CHOOSE x \in S : \A y \in S : x <= y

ToUpperChar(c) ==
    IF c \in Range(LowerCase)
    THEN UpperCase[CHOOSE i \in 1..26 : LowerCase[i] = c]
    ELSE c

ToLowerChar(c) ==
    IF c \in Range(UpperCase)
    THEN LowerCase[CHOOSE i \in 1..26 : UpperCase[i] = c]
    ELSE c

ToUpper(s) == [i \in 1..Len(s) |-> ToUpperChar(s[i])]

\* a conversion that keeps the case
ToLowerKeeps(s) == s

ToLower(s) == [i \in 1..Len(s) |-> ToLowerChar(s[i])]

\* s[from:] with a 0-based byte offset, as Go slices a string
From(s, from) == SubSeq(s, from + 1, Len(s))

\* s[:to] with a 0-based byte offset
Upto(s, to) == SubSeq(s, 1, to)

HasPrefix(s, p) == Len(s) >= Len(p) /\ SubSeq(s, 1, Len(p)) = p

HasSuffix(s, p) == Len(s) >= Len(p) /\ SubSeq(s, Len(s) - Len(p) + 1, Len(s)) = p

TrimPrefix(s, p) == IF HasPrefix(s, p) THEN From(s, Len(p)) ELSE s

TrimSuffix(s, p) == IF HasSuffix(s, p) THEN Upto(s, Len(s) - Len(p)) ELSE s

\* strings.TrimLeft(s, cutset): drops the leading characters that are in cutset
TrimLeft(s, cutset) ==
    LET keep == {i \in 1..Len(s) : s[i] \notin cutset}
    IN  IF keep = {} THEN <<>> ELSE SubSeq(s, SetMin(keep), Len(s))

TrimRight(s, cutset) ==
    LET keep == {i \in 1..Len(s) : s[i] \notin cutset}
    IN  IF keep = {} THEN <<>> ELSE SubSeq(s, 1, CHOOSE x \in keep : \A y \in keep : y <= x)

TrimSpace(s) == TrimRight(TrimLeft(s, SpaceChars), SpaceChars)

\* strings.Index: the 0-based offset of the first occurrence of sub, or -1
Index(s, sub) ==
    LET at == {i \in 0..(Len(s) - Len(sub)) : SubSeq(s, i + 1, i + Len(sub)) = sub}
    IN  IF at = {} THEN -1 ELSE SetMin(at)

Contains(s, sub) == Index(s, sub) >= 0

RECURSIVE Split(_, _)
\* strings.Split with a non-empty separator
Split(s, sep) ==
    LET i == Index(s, sep)
    IN  IF i < 0 THEN <<s>>
        ELSE <<Upto(s, i)>> \o Split(From(s, i + Len(sep)), sep)

\* strings.SplitN(s, sep, 2)
SplitN2(s, sep) ==
    LET i == Index(s, sep)
    IN  IF i < 0 THEN <<s>> ELSE <<Upto(s, i), From(s, i + Len(sep))>>

RECURSIVE Join(_, _)
Join(parts, sep) ==
    IF parts = <<>> THEN <<>>
    ELSE IF Len(parts) = 1 THEN parts[1]
    ELSE parts[1] \o sep \o Join(Tail(parts), sep)

RECURSIVE Fields(_)
\* strings.Fields: the maximal runs of non-space characters
Fields(s) ==
    LET t == TrimLeft(s, SpaceChars)
        ws == {i \in 1..Len(t) : IsSpace(t[i])}
        k == IF ws = {} THEN Len(t) + 1 ELSE SetMin(ws)
    IN  IF t = <<>> THEN <<>>
        ELSE <<SubSeq(t, 1, k - 1)>> \o Fields(SubSeq(t, k, Len(t)))

(***************************************************************************)
(* CommandAllowlist                                                        *)
(***************************************************************************)
allowedCommands ==
    << Chars("ls"), Chars("pwd"), Chars("echo"), Chars("cat"), Chars("grep"),
       Chars("find"), Chars("ps"), Chars("top"), Chars("df"), Chars("du"),
       Chars("date"), Chars("whoami"), Chars("uname") >>

\* a gate that folds the program name to lower case before comparing
isValidCommandFolded(cmd) ==
    LET parts == Fields(cmd)
    IN  IF Len(parts) = 0 THEN FALSE
        ELSE \E i \in 1..Len(allowedCommands) : ToLower(parts[1]) = allowedCommands[i]

isValidCommand(cmd) ==
    LET parts == Fields(cmd)
    IN  IF Len(parts) = 0 THEN FALSE
        ELSE \E i \in 1..Len(allowedCommands) : parts[1] = allowedCommands[i]

(***************************************************************************)
(* Conventional-commit regular expressions                                 *)
(***************************************************************************)
commitTypes ==
    { Chars("build"), Chars("chore"), Chars("ci"), Chars("docs"), Chars("feat"),
      Chars("fix"), Chars("perf"), Chars("refactor"), Chars("revert"),
      Chars("style"), Chars("test") }

\* [a-z0-9\-]
ScopeChars == Range(LowerCase) \cup Range(Digits) \cup {"-"}

\* the remainders of r once the optional group (\([a-z0-9\-]+\))? has matched
AfterScope(r) ==
    LET close == Index(r, <<")">>)
        scoped == /\ Len(r) >= 1 /\ r[1] = "("
                  /\ close >= 2
                  /\ \A i \in 2..close : r[i] \in ScopeChars
    IN  {r} \cup (IF scoped THEN {From(r, close + 1)} ELSE {})

\* the remainders of s after ^(build|...|test)(\([a-z0-9\-]+\))?
AfterTypeScope(s) ==
    UNION { AfterScope(From(s, Len(t))) : t \in {u \in commitTypes : HasPrefix(s, u)} }

\* ^(build|...|test)(\([a-z0-9\-]+\))?: .+   ('.' matches anything but a newline)
headerReMatch(s) ==
    \E r \in AfterTypeScope(s) :
        /\ HasPrefix(r, <<":", " ">>)
        /\ Len(r) >= 3
        /\ r[3] # NL

\* ^(build|...|test)(\([a-z0-9\-]+\))?:<space>
prefixReMatch(s) == \E r \in AfterTypeScope(s) : HasPrefix(r, <<":", " ">>)

\* typeRe.FindStringSubmatch(s)[0] for ^(build|...|test); <<>> when there is no match
typeReFind(s) ==
    LET m == {t \in commitTypes : HasPrefix(s, t)}
    IN  IF m = {} THEN <<>> ELSE CHOOSE t \in m : TRUE

(***************************************************************************)
(* CommitMessageValidator, CommitMessageRepairer                           *)
(***************************************************************************)
headerMax == 72

repairMax == 50

repairKeep == 47

Ellipsis == Chars("...")

\* cleanCommitMessage: strips one surrounding fence, then drops blank lines and
\* lines that are only a fence marker
cleanCommitMessage(message) ==
    LET m1 == TrimSpace(message)
        m2 == TrimPrefix(m1, Fence)
        m3 == TrimSuffix(m2, Fence)
        m4 == TrimSpace(m3)
        lines == Split(m4, <<NL>>)
        keep(l) == TrimSpace(l) # Fence /\ TrimSpace(l) # <<>>
    IN  Join(SelectSeq(lines, keep), <<NL>>)

\* isValidCommitMessage: the result is the boolean only; the capitalised header and
\* the re-wrapped body are locals of the function and are dropped on return
isValidCommitMessage(message) ==
    IF message = <<>> THEN FALSE
    ELSE LET parts == SplitN2(message, <<NL>>)
             header == TrimSpace(parts[1])
             descStart == Index(header, <<":", " ">>) + 2
         IN  IF ~headerReMatch(header) THEN FALSE
             ELSE IF Len(header) > headerMax THEN FALSE
             ELSE IF descStart < 2 \/ Len(header) <= descStart THEN FALSE
             ELSE TRUE

\* a type step that leaves a header without a colon as it is
repairTypeKeepsPlain(header) ==
    IF prefixReMatch(header) THEN header
    ELSE LET colonIndex == Index(header, <<":">>)
         IN  IF colonIndex > 0
             THEN Chars("fix: ") \o TrimLeft(header, {":", " "})
             ELSE header

\* the header of fixCommonCommitMessageIssues after "Ensure it starts with a valid type"
repairType(header) ==
    IF prefixReMatch(header) THEN header
    ELSE LET colonIndex == Index(header, <<":">>)
         IN  IF colonIndex > 0
             THEN LET typePart == TrimSpace(Upto(header, colonIndex))
                      descPart == TrimSpace(From(header, colonIndex + 1))
                      found == typeReFind(typePart)
                  IN  IF found # <<>>
                      THEN found \o <<":", " ">> \o descPart
                      ELSE Chars("fix: ") \o TrimLeft(header, {":", " "})
             ELSE Chars("fix: ") \o header

\* "Capitalize first letter after type"
repairCapital(header0) ==
    LET header == TrimSpace(header0)
        colonIndex == Index(header, <<":">>)
    IN  IF Len(header) > 0 /\ colonIndex > 0 /\ Len(header) > colonIndex + 1
        THEN LET afterType == From(header, colonIndex + 1)
             IN  Upto(header, colonIndex + 1) \o <<" ">>
                 \o <<ToUpperChar(afterType[1])>>
                 \o (IF Len(afterType) > 1 THEN From(afterType, 1) ELSE <<>>)
        ELSE header

fixCommonCommitMessageIssues(message) ==
    IF message = <<>> THEN message
    ELSE LET lines == Split(message, <<NL>>)
             h1 == TrimSuffix(TrimPrefix(TrimSpace(lines[1]), <<BT>>), <<BT>>)
             h2 == IF Len(h1) > repairMax THEN Upto(h1, repairKeep) \o Ellipsis ELSE h1
             header == repairCapital(repairType(h2))
         IN  IF Len(lines) > 1
             THEN header \o <<NL>> \o Join(Tail(lines), <<NL>>)
             ELSE header

(***************************************************************************)
(* Inputs                                                                  *)
(***************************************************************************)
Rep(n, c) == [i \in 1..n |-> c]

\* how many lines one interactive session reads
MaxReads == 2

\* how far past a length limit the long inputs go
Over == 1

\* what the user may type at the prompt (before trimming)
ShellLines ==
    { <<>>, Chars("  "),
      Chars("help"), Chars(" EXIT "), Chars("cd /tmp"), Chars("clear"),
      Chars("!ls -la"), Chars("! echo hi"), Chars("!rm -rf /"), Chars("!LS"),
      Chars("!"), Chars("list my files"), Chars("ls -la"), Chars("!ls ; rm x") }

\* what the backend may answer to a query of the shell or of the default command
ChatResponses ==
    { Chars("Command: ls -la"), Chars("Command: rm -rf /"), Chars("Command:   "),
      Chars("\n Command: ls"), Chars("Use ls to list files."),
      Chars("Command: echo a && curl b"),
      Chars("Run ") \o Fence \o Chars("ls -la") \o Fence \o Chars(" now") }

\* the errors askAI may return
AskErrors == { Chars("invalid response format"), Chars("error making request: timeout") }

AskReplies ==
    { [ok |-> TRUE, text |-> r, err |-> <<>>] : r \in ChatResponses }
    \cup { [ok |-> FALSE, text |-> <<>>, err |-> e] : e \in AskErrors }

\* the argument vectors of the default command
RootArgs ==
    { <<>>, <<Chars("!ls -la")>>, <<Chars("!rm -rf /")>>, <<Chars("! ")>>,
      <<Chars("list"), Chars("my files")>>, <<Chars("delete everything")>> }

\* what `git diff --cached --name-status` and `git diff --cached` may print
GitStatusOut == { <<>>, Chars("M\tmain.go\n") }

GitDiffOut == { <<>>, Chars("+fmt.Println(1)\n") }

GitEnvs ==
    { [repo |-> r, statusOk |-> so, status |-> st, diffOk |-> dk, diff |-> d,
       branchOk |-> bo, branch |-> Chars("main\n")] :
         r \in BOOLEAN, so \in BOOLEAN, st \in GitStatusOut,
         dk \in BOOLEAN, d \in GitDiffOut, bo \in BOOLEAN }

\* first lines the backend may propose for a commit message
CommitHeads ==
    { Chars("feat(cli): Add login flag"),
      Chars("fix: add login flag"),
      Chars("added login flag"),
      Chars("feat(x):"),
      Chars("fix: ") \o Rep(67, "a"),
      Chars("fix: ") \o Rep(67 + Over, "a") }

\* what may follow the first line
CommitTails ==
    { <<>>,
      Chars("\n\nExplain the change."),
      Rep(72 + Over, " ") \o Chars("\nbody"),
      Chars("\n\n") \o Rep(72 + Over, "b") }

\* the answers of the backend to a commit prompt: bare, fenced, and fenced twice
\* with an indented first line
CommitResponses ==
    { h \o t : h \in CommitHeads, t \in CommitTails }
    \cup { Fence \o <<NL>> \o h \o <<NL>> \o Fence :
             h \in {Chars("feat(cli): Add login flag"), Chars("added login flag")} }
    \cup { Fence \o <<NL>> \o Fence \o Chars("\n  fix: Add x"),
           <<BT>> \o Chars("docs:") \o <<BT>>, Chars("  \n") }

CommitReplies ==
    { [ok |-> TRUE, text |-> r, err |-> <<>>] : r \in CommitResponses }
    \cup { [ok |-> FALSE, text |-> <<>>, err |-> e] : e \in AskErrors }

\* the longest command string enumerated character by character
MaxCmdLen == 4

CmdChars == {"l", "s", "p", "L", " "}

RECURSIVE StringsUpTo(_)
\* every string over CmdChars of at most n characters
StringsUpTo(n) ==
    IF n = 0 THEN {<<>>}
    ELSE LET shorter == StringsUpTo(n - 1)
         IN  shorter \cup {Append(w, c) : w \in shorter, c \in CmdChars}

CmdPads == { <<>>, Chars("  "), Chars("\t") }

CmdPrograms ==
    Range(allowedCommands)
    \cup { Chars("rm"), Chars("LS"), Chars("Echo"), Chars("lsx"), Chars("sudo"),
           Chars("l"), Chars("curl") }

CmdTails == { <<>>, Chars(" -la"), Chars(" ; rm x"), Chars("\trm"), Chars(";rm"), Chars("  ") }

\* the command strings the gate is applied to
CmdInputs ==
    StringsUpTo(MaxCmdLen)
    \cup { pad \o prog \o tail : pad \in CmdPads, prog \in CmdPrograms, tail \in CmdTails }

MsgPads == { <<>>, Chars("  ") }

MsgTypes ==
    { Chars("feat"), Chars("fix"), Chars("ci"), Chars("revert"), Chars("Fix"),
      Chars("feature"), <<>> }

MsgScopes == { <<>>, Chars("(cli)"), Chars("(a-1)"), Chars("()"), Chars("(A)") }

MsgSeps == { Chars(": "), Chars(":") }

MsgDescs == { <<>>, Chars("x"), Chars("Add login flag") }

MsgTails == { <<>>, Chars("  "), Chars("\n\nbody") }

\* the messages the validator is applied to: composed first lines, and first lines
\* at the length limit, one past it, and past it by trailing blanks only
ValidateInputs ==
    { pad \o type \o scope \o sep \o desc \o tail :
        pad \in MsgPads, type \in MsgTypes, scope \in MsgScopes,
        sep \in MsgSeps, desc \in MsgDescs, tail \in MsgTails }
    \cup { Chars("fix: ") \o Rep(67, "a"),
           Chars("fix: ") \o Rep(67 + Over, "a"),
           Chars("fix: ") \o Rep(67 + Over, "a") \o Chars("\nbody"),
           Chars("feat(cli): ") \o Rep(61, "a") \o Chars("\nbody"),
           Chars("fix: Add x") \o Rep(62 + Over, " "),
           Chars("fix: Add x") \o Rep(62 + Over, " ") \o Chars("\nbody"),
           Chars("\nfix: Add x"),
           Chars("added login flag") }

RepairWraps == { <<>>, <<BT>>, Chars("  ") }

\* first lines without a colon
RepairPlain ==
    { Chars("added login flag"), Chars("Added login flag"), Chars("x"),
      Chars("fixed the bug"), Chars("feat add x"), <<>>, Chars(" "),
      Rep(repairMax, "a"), Rep(repairMax + Over, "a"),
      Rep(headerMax - 5, "a"), Rep(headerMax - 5 + Over, "a") }

\* first lines with a colon
RepairColon ==
    { Chars("fix: add x"), Chars("fix: Add x"), Chars("fix:  Add x"),
      Chars("feat(cli): add x"), Chars("Fix: add x"), Chars("feat(x):"),
      Chars("fix:"), Chars(":"), Chars("feature: add x"), Chars("fix:add x"),
      Chars("update: add x"), Chars("fix: ") \o Rep(repairMax, "a") }

RepairTails == { <<>>, Chars("\nbody") }

\* the messages the repairer is applied to
RepairInputs ==
    { w \o l \o w \o t :
        w \in RepairWraps, l \in RepairPlain \cup RepairColon, t \in RepairTails }

CodePads == { <<>>, Chars("\n ") }

CodeOpeners == { <<>>, Fence \o <<NL>>, Fence \o Chars("python\n"), Chars("Here:\n") }

CodeBodies == { <<>>, Chars("print(1)"), Chars("print(1)\nprint(2)"), Chars("a\n\nb") }

CodeClosers == { <<>>, <<NL>> \o Fence, <<NL>> \o Fence \o Chars(" "), Chars("\nDone.") }

CodeTails == { <<>>, <<NL>> }

\* the responses the generate command may get
CodeResponses ==
    { p \o o \o b \o c \o t :
        p \in CodePads, o \in CodeOpeners, b \in CodeBodies,
        c \in CodeClosers, t \in CodeTails }

\* how many fence markers the rendered answers hold at most
MaxFences == 4

RenderPieces == { <<>>, Chars("Run "), Chars("ls -la\n") }

RECURSIVE FencedAnswers(_)
\* the answers made of n + 1 pieces with a fence marker between two pieces
FencedAnswers(n) ==
    IF n = 0 THEN RenderPieces
    ELSE { p \o Fence \o r : p \in RenderPieces, r \in FencedAnswers(n - 1) }

\* the answers handleResponse is applied to
RenderInputs ==
    UNION { FencedAnswers(n) : n \in 0..MaxFences }
    \cup { <<BT>> \o Fence, Fence \o <<BT>> \o Chars("ls") \o Fence,
           Chars("Command: ls ") \o Fence \o Chars("x") \o Fence,
           Chars(" Command: ") \o Fence \o Chars("ls") \o Fence }

(***************************************************************************)
(* State                                                                   *)
(***************************************************************************)
VARIABLES
    entry,      \* the subcommand the process runs: "shell", "root", "aicommit"
    pc,         \* where the process is
    exitCode,   \* the exit status once the process has ended, <<>> before
    history,    \* the lines handed to AppendHistory, in order
    histFile,   \* the history log on disk
    reads,      \* how many times the prompt has returned
    readErr,    \* <<e>> when the last call of the prompt returned the error e
    line,       \* the trimmed input of the current iteration
    route,      \* how the current line was classified
    gate,       \* the isValidCommand call of the current iteration
    execCmd,    \* <<c>> while executeCommand(c) runs, <<>> otherwise
    lineAsk,    \* askAI calls of the current iteration
    lineExec,   \* executeCommand calls of the current iteration
    report,     \* what the current iteration printed last
    printed,    \* the segments an AI answer was rendered as
    args,       \* the arguments of the default command
    git,        \* what the git collaborator answers
    attempt,    \* the loop counter of AICommit
    prompt,     \* the prompt of the next askAI call of AICommit
    askLog,     \* what askAI was called with by AICommit or by the shell, in order
    candidates, \* the cleaned message of every attempt, in order
    repairLog,  \* the arguments fixCommonCommitMessageIssues was called with
    result,     \* <<r>> once AICommit or handleShell has returned r
    fnArg,      \* the argument of a function applied on its own
    fnRes       \* <<v>> once it has returned v

procVars == <<entry, pc, exitCode>>

iterVars == <<line, route, gate, execCmd, lineAsk, lineExec, report, printed>>

shellVars == <<history, histFile, reads, readErr>>

commitVars == <<git, attempt, prompt, askLog, candidates, repairLog, result>>

fnVars == <<fnArg, fnRes>>

vars == <<procVars, iterVars, shellVars, args, commitVars, fnVars>>

NoGate == [called |-> FALSE, arg |-> <<>>, ok |-> FALSE]

NoPrompt == [kind |-> "none", branch |-> <<>>, status |-> <<>>, diff |-> <<>>]

NoGit == [repo |-> FALSE, statusOk |-> FALSE, status |-> <<>>, diffOk |-> FALSE,
          diff |-> <<>>, branchOk |-> FALSE, branch |-> <<>>]

\* everything but the entry point and its inputs
Idle ==
    /\ pc = "Start" /\ exitCode = <<>>
    /\ history = <<>> /\ histFile = <<>> /\ reads = 0 /\ readErr = <<>>
    /\ line = <<>> /\ route = "none" /\ gate = NoGate /\ execCmd = <<>>
    /\ lineAsk = 0 /\ lineExec = 0 /\ report = "none" /\ printed = <<>>
    /\ attempt = 0 /\ prompt = NoPrompt /\ askLog = <<>> /\ candidates = <<>>
    /\ repairLog = <<>> /\ result = <<>>
    /\ fnRes = <<>>

(***************************************************************************)
(* ShellDispatcher: handleShell                                            *)
(***************************************************************************)
shellCommands == << Chars("help"), Chars("exit"), Chars("clear"), Chars("cd") >>

\* the '!' path with the allowlist check left out
handleShellCommandUngated(input) ==
    IF HasPrefix(input, <<"!">>)
    THEN LET cmdStr == TrimSpace(From(input, 1))
         IN  [handled |-> TRUE, gate |-> NoGate, run |-> <<cmdStr>>]
    ELSE [handled |-> FALSE, gate |-> NoGate, run |-> <<>>]

\* a '!' path that hands a rejected line on to the next route
handleShellCommandPassesOn(input) ==
    IF HasPrefix(input, <<"!">>) /\ isValidCommand(TrimSpace(From(input, 1)))
    THEN LET cmdStr == TrimSpace(From(input, 1))
         IN  [handled |-> TRUE,
              gate |-> [called |-> TRUE, arg |-> cmdStr, ok |-> TRUE],
              run |-> <<cmdStr>>]
    ELSE [handled |-> FALSE, gate |-> NoGate, run |-> <<>>]

\* handleShellCommand: whether the line was a '!' line, the allowlist call made for
\* it, and the command handed to executeCommand (none when the gate rejects)
handleShellCommand(input) ==
    IF HasPrefix(input, <<"!">>)
    THEN LET cmdStr == TrimSpace(From(input, 1))
             ok == isValidCommand(cmdStr)
         IN  [handled |-> TRUE,
              gate |-> [called |-> TRUE, arg |-> cmdStr, ok |-> ok],
              run |-> IF ok THEN <<cmdStr>> ELSE <<>>]
    ELSE [handled |-> FALSE, gate |-> NoGate, run |-> <<>>]

CommandPrefix == Chars("Command: ")

\* a rendering that takes the first segment for code
renderSegmentsCodeFirst(response) ==
    LET parts == Split(response, Fence)
    IN  [i \in 1..Len(parts) |-> [code |-> (i - 1) % 2 = 0, text |-> parts[i]]]

\* the rendering of an answer that holds a fence: odd segments are code
renderSegments(response) ==
    LET parts == Split(response, Fence)
    IN  [i \in 1..Len(parts) |-> [code |-> (i - 1) % 2 = 1, text |-> parts[i]]]

\* handleShell, from "If AI response is a command to execute" to the end of the loop body
handleResponse(response) ==
    IF HasPrefix(response, CommandPrefix)
    THEN LET cmdStr == TrimSpace(TrimPrefix(response, CommandPrefix))
             ok == isValidCommand(cmdStr)
         IN  [kind |-> "command",
              gate |-> [called |-> TRUE, arg |-> cmdStr, ok |-> ok],
              run |-> IF ok THEN <<cmdStr>> ELSE <<>>,
              segs |-> <<>>]
    ELSE IF Contains(response, Fence)
    THEN [kind |-> "code", gate |-> NoGate, run |-> <<>>, segs |-> renderSegments(response)]
    ELSE [kind |-> "text", gate |-> NoGate, run |-> <<>>,
          segs |-> <<[code |-> FALSE, text |-> response]>>]

\* the characters that end a simple command in a command list of sh
ShellOperators == { ";", "&", "|", "\n" }

RECURSIVE SplitAny(_, _)
\* s cut at every character of seps
SplitAny(s, seps) ==
    LET at == {i \in 1..Len(s) : s[i] \in seps}
    IN  IF at = {} THEN <<s>>
        ELSE <<SubSeq(s, 1, SetMin(at) - 1)>>
             \o SplitAny(SubSeq(s, SetMin(at) + 1, Len(s)), seps)

\* executeCommand: the programs sh starts for sh -c cmdStr, the first word of
\* every simple command of the list (for strings without quoting, substitution
\* or redirection)
executeCommand(cmdStr) ==
    { Fields(c)[1] : c \in {x \in Range(SplitAny(cmdStr, ShellOperators)) : Fields(x) # <<>>} }

ShellInit ==
    /\ entry = "shell" /\ Idle
    /\ args = <<>> /\ git = NoGit /\ fnArg = <<>>

\* newShellCmd.Run calls handleShell, which prints the banner and prompts
ShellStart ==
    /\ entry = "shell" /\ pc = "Start"
    /\ pc' = "Reading"
    /\ UNCHANGED <<entry, exitCode, iterVars, shellVars, args, commitVars, fnVars>>

ErrPromptAborted == Chars("prompt aborted")

\* the errors line.Prompt may return
PromptErrors == { ErrPromptAborted, Chars("EOF"), Chars("input error") }

\* a loop that every error of the prompt ends
promptErrorEndsAlways(err) == err \in PromptErrors

\* whether handleShell returns the error of the prompt (it continues otherwise)
promptErrorEnds(err) == err # ErrPromptAborted

\* a loop that records the line as it was typed
historyEntryRaw(raw) == IF raw = <<>> THEN <<>> ELSE <<raw>>

\* what the loop hands to AppendHistory for the line the prompt returned
historyEntry(raw) == IF TrimSpace(raw) = <<>> THEN <<>> ELSE <<TrimSpace(raw)>>

\* line.Prompt returns liner.ErrPromptAborted
PromptAborted ==
    /\ entry = "shell" /\ pc = "Reading" /\ reads < MaxReads
    /\ \E err \in PromptErrors : ~promptErrorEnds(err) /\ readErr' = <<err>>
    /\ reads' = reads + 1
    /\ line' = <<>> /\ route' = "none" /\ gate' = NoGate /\ execCmd' = <<>>
    /\ lineAsk' = 0 /\ lineExec' = 0 /\ report' = "^C" /\ printed' = <<>>
    /\ UNCHANGED <<procVars, history, histFile, args, commitVars, fnVars>>

\* line.Prompt returns another error: handleShell returns it, its deferred calls
\* write the history log, Run prints the error and the process ends
PromptFailed ==
    /\ entry = "shell" /\ pc = "Reading"
    /\ \E err \in PromptErrors :
        /\ promptErrorEnds(err)
        /\ readErr' = <<err>>
        /\ result' = <<[ok |-> FALSE, text |-> err]>>
    /\ pc' = "Done" /\ exitCode' = <<0>>
    /\ histFile' = history
    /\ report' = "Shell error"
    /\ UNCHANGED <<entry, history, reads, line, route, gate, execCmd, lineAsk,
                   lineExec, printed, args, git, attempt, prompt, askLog,
                   candidates, repairLog, fnVars>>

\* line.Prompt returns a line: one pass through the loop body, up to the point
\* where it blocks on askAI or on executeCommand
PromptLine ==
    /\ entry = "shell" /\ pc = "Reading" /\ reads < MaxReads
    /\ \E raw \in ShellLines, handlerOk \in BOOLEAN :
        LET input == TrimSpace(raw)
            parts == Fields(input)
            cmd == ToLower(parts[1])
            builtin == \E i \in 1..Len(shellCommands) : shellCommands[i] = cmd
            bang == handleShellCommand(input)
            asked == input # <<>> /\ ~builtin /\ ~bang.handled
        IN  /\ reads' = reads + 1
            /\ askLog' = IF asked THEN Append(askLog, input) ELSE askLog
            /\ readErr' = <<>>
            /\ line' = input
            /\ printed' = <<>>
            /\ histFile' = histFile
            /\ history' = history \o historyEntry(raw)
            /\ IF input = <<>>
               THEN /\ handlerOk
                    /\ route' = "none" /\ gate' = NoGate /\ execCmd' = <<>>
                    /\ lineAsk' = 0 /\ lineExec' = 0 /\ report' = "none"
                    /\ UNCHANGED <<pc, exitCode>>
               ELSE /\ IF builtin
                       THEN /\ route' = "builtin" /\ gate' = NoGate /\ execCmd' = <<>>
                            /\ lineAsk' = 0 /\ lineExec' = 0
                            /\ IF cmd = Chars("exit")
                               THEN /\ handlerOk
                                    /\ pc' = "Exited" /\ exitCode' = <<0>>
                                    /\ report' = "Goodbye!"
                               ELSE /\ cmd = Chars("help") => handlerOk
                                    /\ report' = IF handlerOk THEN "builtin done"
                                                 ELSE "builtin error"
                                    /\ UNCHANGED <<pc, exitCode>>
                       ELSE IF bang.handled
                       THEN /\ handlerOk
                            /\ route' = "raw" /\ gate' = bang.gate /\ execCmd' = bang.run
                            /\ lineAsk' = 0 /\ lineExec' = Len(bang.run)
                            /\ report' = IF bang.run = <<>>
                                         THEN "Invalid or potentially unsafe command."
                                         ELSE "none"
                            /\ pc' = IF bang.run = <<>> THEN "Reading" ELSE "Executing"
                            /\ UNCHANGED exitCode
                       ELSE /\ handlerOk
                            /\ route' = "ai" /\ gate' = NoGate /\ execCmd' = <<>>
                            /\ lineAsk' = 1 /\ lineExec' = 0 /\ report' = "none"
                            /\ pc' = "AwaitAI"
                            /\ UNCHANGED exitCode
    /\ UNCHANGED <<entry, args, git, attempt, prompt, candidates, repairLog, result, fnVars>>

\* askAI returns to the shell
ShellAnswer ==
    /\ entry = "shell" /\ pc = "AwaitAI"
    /\ \E reply \in AskReplies :
        IF ~reply.ok
        THEN /\ report' = "Error"
             /\ pc' = "Reading"
             /\ UNCHANGED <<gate, execCmd, lineExec, printed>>
        ELSE LET r == handleResponse(reply.text)
             IN  /\ gate' = r.gate
                 /\ execCmd' = r.run
                 /\ lineExec' = lineExec + Len(r.run)
                 /\ printed' = r.segs
                 /\ report' = IF r.kind = "command"
                              THEN IF r.run = <<>>
                                   THEN "Invalid or potentially unsafe command."
                                   ELSE "Executing command"
                              ELSE r.kind
                 /\ pc' = IF r.run = <<>> THEN "Reading" ELSE "Executing"
    /\ UNCHANGED <<entry, exitCode, shellVars, line, route, lineAsk, args, commitVars, fnVars>>

\* a shell that a failed command ends
ShellExecutedFatal ==
    /\ entry = "shell" /\ pc = "Executing"
    /\ \E failed \in BOOLEAN :
        /\ report' = IF failed THEN "Command failed" ELSE "command done"
        /\ pc' = IF failed THEN "Done" ELSE "Reading"
        /\ exitCode' = IF failed THEN <<1>> ELSE exitCode
    /\ execCmd' = <<>>
    /\ UNCHANGED <<entry, shellVars, line, route, gate, lineAsk, lineExec,
                   printed, args, commitVars, fnVars>>

\* cmd.Run returns to the shell
ShellExecuted ==
    /\ entry = "shell" /\ pc = "Executing"
    /\ \E failed \in BOOLEAN :
        report' = IF failed THEN "Command failed" ELSE "command done"
    /\ pc' = "Reading"
    /\ execCmd' = <<>>
    /\ UNCHANGED <<entry, exitCode, shellVars, line, route, gate, lineAsk, lineExec,
                   printed, args, commitVars, fnVars>>

NextShell ==
    \/ ShellStart
    \/ PromptAborted
    \/ PromptFailed
    \/ PromptLine
    \/ ShellAnswer
    \/ ShellExecuted

SpecShell == ShellInit /\ [][NextShell]_vars

(***************************************************************************)
(* The default command: rootCmd.RunE                                       *)
(***************************************************************************)
RootInit ==
    /\ entry = "root" /\ Idle
    /\ args \in RootArgs /\ git = NoGit /\ fnArg = <<>>

\* RunE up to the point where it blocks on executeCommand or on askAI, or returns
RootRun ==
    /\ entry = "root" /\ pc = "Start"
    /\ IF Len(args) = 0
       THEN /\ pc' = "Done" /\ exitCode' = <<0>> /\ report' = "help"
            /\ UNCHANGED <<line, route, execCmd, lineAsk, lineExec>>
       ELSE IF HasPrefix(args[1], <<"!">>)
       THEN /\ pc' = "Executing"
            /\ execCmd' = <<TrimSpace(TrimPrefix(args[1], <<"!">>))>>
            /\ route' = "raw" /\ lineExec' = 1
            /\ UNCHANGED <<exitCode, line, lineAsk, report>>
       ELSE /\ pc' = "AwaitAI"
            /\ line' = Join(args, <<" ">>)
            /\ route' = "ai" /\ lineAsk' = 1
            /\ UNCHANGED <<exitCode, execCmd, lineExec, report>>
    /\ UNCHANGED <<entry, gate, printed, shellVars, args, commitVars, fnVars>>

\* askAI returns to RunE
RootAnswer ==
    /\ entry = "root" /\ pc = "AwaitAI"
    /\ \E reply \in AskReplies :
        IF ~reply.ok
        THEN /\ pc' = "Done" /\ exitCode' = <<1>> /\ report' = "Error"
             /\ UNCHANGED <<execCmd, lineExec, printed>>
        ELSE IF HasPrefix(reply.text, CommandPrefix)
        THEN /\ pc' = "Executing"
             /\ execCmd' = <<TrimSpace(TrimPrefix(reply.text, CommandPrefix))>>
             /\ lineExec' = lineExec + 1
             /\ report' = "Executing command"
             /\ UNCHANGED <<exitCode, printed>>
        ELSE /\ pc' = "Done" /\ exitCode' = <<0>> /\ report' = "text"
             /\ printed' = <<[code |-> FALSE, text |-> reply.text]>>
             /\ UNCHANGED <<execCmd, lineExec>>
    /\ UNCHANGED <<entry, line, route, gate, lineAsk, shellVars, args, commitVars, fnVars>>

\* cmd.Run returns to RunE, which returns its error to main
RootExecuted ==
    /\ entry = "root" /\ pc = "Executing"
    /\ \E failed \in BOOLEAN :
        /\ exitCode' = IF failed THEN <<1>> ELSE <<0>>
        /\ report' = IF failed THEN "Error" ELSE "command done"
    /\ pc' = "Done"
    /\ execCmd' = <<>>
    /\ UNCHANGED <<entry, line, route, gate, lineAsk, lineExec, printed, shellVars,
                   args, commitVars, fnVars>>

NextRoot == RootRun \/ RootAnswer \/ RootExecuted

(***************************************************************************)
(* CommitSynthesisLoop: AICommit                                           *)
(***************************************************************************)
RECURSIVE Itoa(_)
\* %d of a non-negative int
Itoa(n) == IF n < 10 THEN <<Digits[n + 1]>> ELSE Itoa(n \div 10) \o <<Digits[(n % 10) + 1]>>

\* a loop that allows one attempt more
maxAttemptsOneMore == 3 + 1

maxAttempts == 3

askFailedText(err) == Chars("failed to generate commit message: ") \o err

exhaustedText(message) ==
    Chars("failed to generate valid commit message after ") \o Itoa(maxAttempts)
    \o Chars(" attempts. Last attempt: ") \o message

fullPrompt(g) ==
    [kind |-> "full",
     branch |-> IF g.branchOk THEN TrimSpace(g.branch) ELSE <<>>,
     status |-> TrimSpace(g.status),
     diff |-> g.diff]

\* a retry that sends the first prompt again
strictPromptIsFull(g) ==
    [kind |-> "full",
     branch |-> IF g.branchOk THEN TrimSpace(g.branch) ELSE <<>>,
     status |-> TrimSpace(g.status),
     diff |-> g.diff]

strictPrompt(g) == [kind |-> "strict", branch |-> <<>>, status |-> <<>>, diff |-> g.diff]

\* preconditions that accept an empty staged diff
preconditionErrorAnyDiff(g) ==
    IF ~g.repo THEN <<Chars("not a git repository")>>
    ELSE IF ~g.statusOk THEN <<Chars("failed to get git status: exit status 128")>>
    ELSE IF Len(g.status) = 0 THEN <<Chars("no staged changes to commit")>>
    ELSE IF ~g.diffOk THEN <<Chars("failed to get git diff: exit status 128")>>
    ELSE <<>>

\* AICommit before the loop: <<>> when every precondition holds, else the error
preconditionError(g) ==
    IF ~g.repo THEN <<Chars("not a git repository")>>
    ELSE IF ~g.statusOk THEN <<Chars("failed to get git status: exit status 128")>>
    ELSE IF Len(g.status) = 0 THEN <<Chars("no staged changes to commit")>>
    ELSE IF ~g.diffOk THEN <<Chars("failed to get git diff: exit status 128")>>
    ELSE IF g.diff = <<>> THEN <<Chars("no changes to commit")>>
    ELSE <<>>

\* a loop body that looks at the validator's answer on the last attempt only
attemptOutcomeLate(n, reply) ==
    IF ~reply.ok
    THEN [done |-> TRUE, ok |-> FALSE, text |-> askFailedText(reply.err),
          message |-> <<>>, repaired |-> <<>>]
    ELSE LET message == cleanCommitMessage(reply.text)
             fixedMessage == fixCommonCommitMessageIssues(message)
         IN  IF n # maxAttempts
             THEN [done |-> FALSE, ok |-> FALSE, text |-> <<>>,
                   message |-> <<message>>, repaired |-> <<>>]
             ELSE IF isValidCommitMessage(message)
             THEN [done |-> TRUE, ok |-> TRUE, text |-> message,
                   message |-> <<message>>, repaired |-> <<>>]
             ELSE IF isValidCommitMessage(fixedMessage)
             THEN [done |-> TRUE, ok |-> TRUE, text |-> fixedMessage,
                   message |-> <<message>>, repaired |-> <<message>>]
             ELSE [done |-> TRUE, ok |-> FALSE, text |-> exhaustedText(message),
                   message |-> <<message>>, repaired |-> <<message>>]

\* a loop body that treats a failed askAI call like an invalid message
attemptOutcomeRetriesFailure(n, reply) ==
    LET message == IF reply.ok THEN cleanCommitMessage(reply.text) ELSE <<>>
        fixedMessage == fixCommonCommitMessageIssues(message)
        shown == IF reply.ok THEN <<message>> ELSE <<>>
    IN  IF isValidCommitMessage(message)
        THEN [done |-> TRUE, ok |-> TRUE, text |-> message,
              message |-> shown, repaired |-> <<>>]
        ELSE IF n = maxAttempts
        THEN IF isValidCommitMessage(fixedMessage)
             THEN [done |-> TRUE, ok |-> TRUE, text |-> fixedMessage,
                   message |-> shown, repaired |-> <<message>>]
             ELSE [done |-> TRUE, ok |-> FALSE, text |-> exhaustedText(message),
                   message |-> shown, repaired |-> <<message>>]
        ELSE [done |-> FALSE, ok |-> FALSE, text |-> <<>>,
              message |-> shown, repaired |-> <<>>]

\* a loop body whose final error shows the repaired message
attemptOutcomeShowsRepaired(n, reply) ==
    IF ~reply.ok
    THEN [done |-> TRUE, ok |-> FALSE, text |-> askFailedText(reply.err),
          message |-> <<>>, repaired |-> <<>>]
    ELSE LET message == cleanCommitMessage(reply.text)
             fixedMessage == fixCommonCommitMessageIssues(message)
         IN  IF isValidCommitMessage(message)
             THEN [done |-> TRUE, ok |-> TRUE, text |-> message,
                   message |-> <<message>>, repaired |-> <<>>]
             ELSE IF n = maxAttempts
             THEN IF isValidCommitMessage(fixedMessage)
                  THEN [done |-> TRUE, ok |-> TRUE, text |-> fixedMessage,
                        message |-> <<message>>, repaired |-> <<message>>]
                  ELSE [done |-> TRUE, ok |-> FALSE, text |-> exhaustedText(fixedMessage),
                        message |-> <<message>>, repaired |-> <<message>>]
             ELSE [done |-> FALSE, ok |-> FALSE, text |-> <<>>,
                   message |-> <<message>>, repaired |-> <<>>]

\* a loop body that runs the repairer after every invalid message
attemptOutcomeRepairsEarly(n, reply) ==
    IF ~reply.ok
    THEN [done |-> TRUE, ok |-> FALSE, text |-> askFailedText(reply.err),
          message |-> <<>>, repaired |-> <<>>]
    ELSE LET message == cleanCommitMessage(reply.text)
             fixedMessage == fixCommonCommitMessageIssues(message)
         IN  IF isValidCommitMessage(message)
             THEN [done |-> TRUE, ok |-> TRUE, text |-> message,
                   message |-> <<message>>, repaired |-> <<>>]
             ELSE IF isValidCommitMessage(fixedMessage)
             THEN [done |-> TRUE, ok |-> TRUE, text |-> fixedMessage,
                   message |-> <<message>>, repaired |-> <<message>>]
             ELSE IF n = maxAttempts
             THEN [done |-> TRUE, ok |-> FALSE, text |-> exhaustedText(message),
                   message |-> <<message>>, repaired |-> <<message>>]
             ELSE [done |-> FALSE, ok |-> FALSE, text |-> <<>>,
                   message |-> <<message>>, repaired |-> <<message>>]

\* one pass through the loop body of AICommit for the reply of askAI:
\* whether AICommit returns, what it returns, the cleaned message, and the
\* arguments the repairer was called with
attemptOutcome(n, reply) ==
    IF ~reply.ok
    THEN [done |-> TRUE, ok |-> FALSE, text |-> askFailedText(reply.err),
          message |-> <<>>, repaired |-> <<>>]
    ELSE LET message == cleanCommitMessage(reply.text)
             fixedMessage == fixCommonCommitMessageIssues(message)
         IN  IF isValidCommitMessage(message)
             THEN [done |-> TRUE, ok |-> TRUE, text |-> message,
                   message |-> <<message>>, repaired |-> <<>>]
             ELSE IF n = maxAttempts
             THEN IF isValidCommitMessage(fixedMessage)
                  THEN [done |-> TRUE, ok |-> TRUE, text |-> fixedMessage,
                        message |-> <<message>>, repaired |-> <<message>>]
                  ELSE [done |-> TRUE, ok |-> FALSE, text |-> exhaustedText(message),
                        message |-> <<message>>, repaired |-> <<message>>]
             ELSE [done |-> FALSE, ok |-> FALSE, text |-> <<>>,
                   message |-> <<message>>, repaired |-> <<>>]

\* attemptOutcome of every attempt number and reply, computed once
attemptOutcomes ==
    [n \in 1..maxAttempts |-> [reply \in CommitReplies |-> attemptOutcome(n, reply)]]

CommitInit ==
    /\ entry = "aicommit" /\ Idle
    /\ args = <<>> /\ git \in GitEnvs /\ fnArg = <<>>

\* AICommit from its entry to the first askAI call, or to the error it returns
CommitPreconditions ==
    /\ entry = "aicommit" /\ pc = "Start"
    /\ IF preconditionError(git) # <<>>
       THEN /\ pc' = "Done" /\ exitCode' = <<0>>
            /\ result' = <<[ok |-> FALSE, text |-> preconditionError(git)[1]]>>
            /\ UNCHANGED <<attempt, prompt>>
       ELSE /\ pc' = "Attempt"
            /\ attempt' = 1
            /\ prompt' = fullPrompt(git)
            /\ UNCHANGED <<exitCode, result>>
    /\ UNCHANGED <<entry, iterVars, shellVars, args, git, askLog, candidates, repairLog, fnVars>>

\* one iteration of the loop: askAI is called with the current prompt and answers
CommitAttempt ==
    /\ entry = "aicommit" /\ pc = "Attempt" /\ attempt <= maxAttempts
    /\ \E reply \in CommitReplies :
        LET out == attemptOutcomes[attempt][reply]
        IN  /\ askLog' = Append(askLog, prompt)
            /\ candidates' = candidates \o out.message
            /\ repairLog' = repairLog \o out.repaired
            /\ IF out.done
               THEN /\ result' = <<[ok |-> out.ok, text |-> out.text]>>
                    /\ pc' = "Done" /\ exitCode' = <<0>>
                    /\ UNCHANGED <<attempt, prompt>>
               ELSE /\ attempt' = attempt + 1
                    /\ prompt' = strictPrompt(git)
                    /\ UNCHANGED <<pc, exitCode, result>>
    /\ UNCHANGED <<entry, iterVars, shellVars, args, git, fnVars>>

NextCommit == CommitPreconditions \/ CommitAttempt

SpecCommit == CommitInit /\ [][NextCommit]_vars

\* the loop body runs as long as the loop is not left
FairCommit == SpecCommit /\ WF_vars(NextCommit)

(***************************************************************************)
(* The program: main dispatches to one subcommand                          *)
(***************************************************************************)
Init == ShellInit \/ RootInit \/ CommitInit

Next == NextShell \/ NextRoot \/ NextCommit

Spec == Init /\ [][Next]_vars

(***************************************************************************)
(* isValidCommand applied on its own                                       *)
(***************************************************************************)
AllowInit ==
    /\ entry = "isValidCommand" /\ Idle
    /\ args = <<>> /\ git = NoGit /\ fnArg \in CmdInputs

ApplyIsValidCommand ==
    /\ entry = "isValidCommand" /\ pc = "Start"
    /\ fnRes' = <<isValidCommand(fnArg)>>
    /\ pc' = "Done"
    /\ UNCHANGED <<entry, exitCode, iterVars, shellVars, args, commitVars, fnArg>>

SpecAllow == AllowInit /\ [][ApplyIsValidCommand]_vars

(***************************************************************************)
(* isValidCommitMessage applied on its own                                 *)
(***************************************************************************)
ValidateInit ==
    /\ entry = "isValidCommitMessage" /\ Idle
    /\ args = <<>> /\ git = NoGit /\ fnArg \in ValidateInputs

ApplyIsValidCommitMessage ==
    /\ entry = "isValidCommitMessage" /\ pc = "Start"
    /\ fnRes' = <<isValidCommitMessage(fnArg)>>
    /\ pc' = "Done"
    /\ UNCHANGED <<entry, exitCode, iterVars, shellVars, args, commitVars, fnArg>>

SpecValidate == ValidateInit /\ [][ApplyIsValidCommitMessage]_vars

(***************************************************************************)
(* fixCommonCommitMessageIssues applied on its own, then on its own result *)
(***************************************************************************)
RepairInit ==
    /\ entry = "fixCommonCommitMessageIssues" /\ Idle
    /\ args = <<>> /\ git = NoGit /\ fnArg \in RepairInputs

ApplyRepair ==
    /\ entry = "fixCommonCommitMessageIssues" /\ pc = "Start"
    /\ fnRes' = <<fixCommonCommitMessageIssues(fnArg)>>
    /\ pc' = "Once"
    /\ UNCHANGED <<entry, exitCode, iterVars, shellVars, args, commitVars, fnArg>>

ApplyRepairAgain ==
    /\ entry = "fixCommonCommitMessageIssues" /\ pc = "Once"
    /\ fnRes' = Append(fnRes, fixCommonCommitMessageIssues(fnRes[1]))
    /\ pc' = "Done"
    /\ UNCHANGED <<entry, exitCode, iterVars, shellVars, args, commitVars, fnArg>>

SpecRepair == RepairInit /\ [][ApplyRepair \/ ApplyRepairAgain]_vars

(***************************************************************************)
(* cleanCodeResponse applied on its own                                    *)
(***************************************************************************)
cleanCodeResponse(code0) ==
    LET code == TrimSpace(code0)
        lines == Split(code, <<NL>>)
    IN  IF HasPrefix(code, Fence) /\ Len(lines) > 2
        THEN Join(SubSeq(lines, 2, Len(lines) - 1), <<NL>>)
        ELSE code

CleanCodeInit ==
    /\ entry = "cleanCodeResponse" /\ Idle
    /\ args = <<>> /\ git = NoGit /\ fnArg \in CodeResponses

ApplyCleanCodeResponse ==
    /\ entry = "cleanCodeResponse" /\ pc = "Start"
    /\ fnRes' = <<cleanCodeResponse(fnArg)>>
    /\ pc' = "Done"
    /\ UNCHANGED <<entry, exitCode, iterVars, shellVars, args, commitVars, fnArg>>

SpecCleanCode == CleanCodeInit /\ [][ApplyCleanCodeResponse]_vars

(***************************************************************************)
(* The handling of an answer in handleShell, applied on its own            *)
(***************************************************************************)
RenderInit ==
    /\ entry = "handleResponse" /\ Idle
    /\ args = <<>> /\ git = NoGit /\ fnArg \in RenderInputs

ApplyHandleResponse ==
    /\ entry = "handleResponse" /\ pc = "Start"
    /\ fnRes' = <<handleResponse(fnArg)>>
    /\ pc' = "Done"
    /\ UNCHANGED <<entry, exitCode, iterVars, shellVars, args, commitVars, fnArg>>

SpecRender == RenderInit /\ [][ApplyHandleResponse]_vars

(***************************************************************************)
(* Properties                                                              *)
(***************************************************************************)

\* the command now running was the argument of an allowlist call that answered true
GatedExec == execCmd # <<>> => gate.called /\ gate.ok /\ gate.arg = execCmd[1]

\* a step of the loop body (a line was read, or askAI answered) in which the
\* allowlist rejects runs nothing and ends at the prompt
RejectStep ==
    ((reads' = reads + 1 \/ pc = "AwaitAI") /\ gate'.called /\ ~gate'.ok)
        => (pc' = "Reading" /\ execCmd' = <<>> /\ lineExec' = 0)

\* C1: in the interactive shell executeCommand runs only a string that isValidCommand
\* has just accepted, on the '!' path and on the "Command: " path; when the gate
\* rejects, nothing is executed for that line and the loop is back at Reading.
C1_ShellExecIsGated == [](entry = "shell" => GatedExec) /\ [][RejectStep]_vars

C1_Witness ==
    /\ entry = "shell" /\ pc = "Executing" /\ route = "ai"
    /\ gate.ok /\ execCmd = <<Chars("ls -la")>>
    /\ history = <<Chars("!rm -rf /"), Chars("list my files")>>

\* C2: on every entry point (the shell and the default command) a command string
\* reaches executeCommand only after isValidCommand has accepted that same string.
C2_EveryEntryIsGated == GatedExec

\* the allowlist as the specification lists it
ListedPrograms ==
    { Chars("ls"), Chars("pwd"), Chars("echo"), Chars("cat"), Chars("grep"),
      Chars("find"), Chars("ps"), Chars("top"), Chars("df"), Chars("du"),
      Chars("date"), Chars("whoami"), Chars("uname") }

\* c is optional white space, then a listed program name, then the end or white space
FirstTokenListed(c) ==
    \E i \in 1..Len(c), a \in ListedPrograms :
        /\ \A k \in 1..(i - 1) : IsSpace(c[k])
        /\ i + Len(a) - 1 <= Len(c)
        /\ SubSeq(c, i, i + Len(a) - 1) = a
        /\ (i + Len(a) - 1 = Len(c) \/ IsSpace(c[i + Len(a)]))

LaterTokens == { Chars("-la"), Chars("; rm x"), Chars("ls"), Chars("&& curl b") }

\* C3: isValidCommand(c) is true iff c has a first token and that token is exactly
\* one of the thirteen listed names; empty and blank strings are rejected; tokens
\* after the first do not change the answer.
C3_AllowlistIffFirstToken ==
    fnRes # <<>> =>
        /\ fnRes[1] = FirstTokenListed(fnArg)
        /\ (\A k \in 1..Len(fnArg) : IsSpace(fnArg[k])) => fnRes[1] = FALSE
        /\ (\E k \in 1..Len(fnArg) : ~IsSpace(fnArg[k])) =>
              \A t \in LaterTokens : isValidCommand(fnArg \o <<" ">> \o t) = fnRes[1]

C3_Witness == fnRes = <<TRUE>> /\ fnArg = Chars("  ls ; rm x")

\* AICommit has returned
Returned == entry = "aicommit" /\ pc = "Done" /\ result # <<>>

\* the last askAI call of AICommit failed
AskFailed == Len(askLog) > Len(candidates)

\* C4: one AICommit call makes at most 3 askAI calls, whatever the backend answers,
\* and always returns (a message or an error).
C4_AtMostThreeCallsAndReturns == [](Len(askLog) <= 3 /\ attempt <= 3) /\ <>Returned

C4_Witness == Returned /\ Len(askLog) = 3 /\ ~result[1].ok /\ ~AskFailed

\* C5: when the cleaned messages of attempts 1..k-1 fail validation and that of
\* attempt k passes, AICommit has returned the attempt-k message after exactly k
\* askAI calls.
C5_FirstValidCandidateIsReturned ==
    \A k \in 1..Len(candidates) :
        (/\ isValidCommitMessage(candidates[k])
         /\ \A j \in 1..(k - 1) : ~isValidCommitMessage(candidates[j]))
        => /\ Returned
           /\ result = <<[ok |-> TRUE, text |-> candidates[k]]>>
           /\ Len(askLog) = k
           /\ Len(candidates) = k

C5_Witness ==
    /\ Returned /\ Len(askLog) = 3 /\ result[1].ok
    /\ candidates[1] # candidates[2]
    /\ result[1].text = candidates[3]
    /\ isValidCommitMessage(candidates[3])

AskFailedPrefix == Chars("failed to generate commit message: ")

ExhaustedPrefix == Chars("failed to generate valid commit message after ")

\* C6: when askAI fails at attempt n, AICommit has returned at once: no later call,
\* no repair, and an error that cannot be taken for the error of exhausted attempts
\* (nor that one for this one).
C6_AskFailureIsTerminal ==
    /\ AskFailed =>
          /\ Returned
          /\ Len(askLog) = Len(candidates) + 1
          /\ repairLog = <<>>
          /\ ~result[1].ok
          /\ HasPrefix(result[1].text, AskFailedPrefix)
          /\ ~HasPrefix(result[1].text, ExhaustedPrefix)
    /\ (Returned /\ ~AskFailed /\ ~result[1].ok /\ candidates # <<>>) =>
          /\ HasPrefix(result[1].text, ExhaustedPrefix)
          /\ ~HasPrefix(result[1].text, AskFailedPrefix)

C6_Witness ==
    /\ Returned /\ AskFailed /\ Len(askLog) = 2
    /\ result[1].text = Chars("failed to generate commit message: invalid response format")

\* the first line of a message
FirstLine(m) == Split(m, <<NL>>)[1]

\* C7: the first line of a message AICommit returns matches the header grammar from
\* its first character and has at most 72 characters, trailing white space counted.
C7_ReturnedHeaderWellFormed ==
    (Returned /\ result[1].ok) =>
        /\ headerReMatch(FirstLine(result[1].text))
        /\ Len(FirstLine(result[1].text)) <= 72

\* C8: a returned message with a body has exactly one blank line between header and
\* body, and no body line longer than 72 characters.
C8_ReturnedBodyWellFormed ==
    (Returned /\ result[1].ok) =>
        LET lines == Split(result[1].text, <<NL>>)
        IN  Len(lines) > 1 =>
              /\ Len(lines) >= 3
              /\ lines[2] = <<>>
              /\ lines[3] # <<>>
              /\ \A i \in 3..Len(lines) : Len(lines[i]) <= 72

\* C9: a message returned because it passed validation has the first letter of its
\* description (the text after ": ") in upper case.
C9_ReturnedDescriptionCapitalised ==
    (Returned /\ result[1].ok /\ repairLog = <<>>) =>
        LET header == FirstLine(result[1].text)
            descStart == Index(header, <<":", " ">>) + 2
        IN  header[descStart + 1] = ToUpperChar(header[descStart + 1])

\* C10: when the message of attempt 3 is invalid and stays invalid after repair, the
\* error AICommit returns ends with that message as it was before repair.
C10_ErrorCarriesLastCandidate ==
    (/\ Returned /\ Len(candidates) = 3 /\ ~AskFailed
     /\ ~isValidCommitMessage(candidates[3])
     /\ ~isValidCommitMessage(fixCommonCommitMessageIssues(candidates[3])))
    => result = <<[ok |-> FALSE,
                   text |-> Chars("failed to generate valid commit message after 3 attempts. Last attempt: ")
                            \o candidates[3]]>>

C10_Witness ==
    /\ Returned /\ Len(candidates) = 3 /\ ~result[1].ok
    /\ candidates[3] = Chars("feat(x):") \o Rep(72 + Over, " ") \o Chars("\nbody")
    /\ fixCommonCommitMessageIssues(candidates[3]) = Chars("feat:\nbody")
    /\ candidates[1] = Chars("added login flag")
    /\ candidates[2] = Chars("fix: ") \o Rep(67 + Over, "a")

\* the types the claims list
ListedTypes ==
    { Chars("build"), Chars("chore"), Chars("ci"), Chars("docs"), Chars("feat"),
      Chars("fix"), Chars("perf"), Chars("refactor"), Chars("revert"),
      Chars("style"), Chars("test") }

\* r is a colon, one space and one character or more
ColonSpaceText(r) == Len(r) >= 3 /\ r[1] = ":" /\ r[2] = " "

\* l is a listed type, an optional parenthesised scope of one or more of
\* [a-z0-9-], a colon, one space and a non-empty description, from its first
\* character on
WellFormedHeader(l) ==
    \E t \in ListedTypes :
        /\ HasPrefix(l, t)
        /\ LET r == From(l, Len(t))
           IN  \/ ColonSpaceText(r)
               \/ /\ Len(r) >= 3 /\ r[1] = "("
                  /\ \E k \in 3..Len(r) :
                        /\ r[k] = ")"
                        /\ \A i \in 2..(k - 1) :
                              r[i] \in Range(LowerCase) \cup Range(Digits) \cup {"-"}
                        /\ ColonSpaceText(From(r, k))

\* C11: the validator answers valid exactly when the first line of the message,
\* as it stands from its first character, is a well-formed header and that first
\* line is at most 72 characters long
C11_ValidIffFirstLineWellFormed ==
    (entry = "isValidCommitMessage" /\ fnRes # <<>>) =>
        (fnRes[1] <=> (/\ WellFormedHeader(FirstLine(fnArg))
                       /\ Len(FirstLine(fnArg)) <= 72))

\* C12: repairing a repaired message changes nothing
C12_RepairIdempotent ==
    (entry = "fixCommonCommitMessageIssues" /\ Len(fnRes) = 2) => fnRes[2] = fnRes[1]

\* m is a single line of at most 50 characters without a colon that does not
\* start with a type keyword
PlainShortLine(m) ==
    /\ m # <<>> /\ Len(m) <= 50
    /\ \A i \in 1..Len(m) : m[i] # NL /\ m[i] # ":"
    /\ \A t \in ListedTypes : ~HasPrefix(m, t)

\* C13: a short single line without a colon and without a leading type keyword
\* is repaired to "fix: " followed by the line with its first letter in upper case
C13_RepairPrefixesFixAndCapitalises ==
    (entry = "fixCommonCommitMessageIssues" /\ fnRes # <<>> /\ PlainShortLine(fnArg))
        => fnRes[1] = Chars("fix: ") \o <<ToUpperChar(fnArg[1])>> \o Tail(fnArg)

\* m is one non-empty line without a colon that the validator rejects and would
\* accept behind a "fix: " prefix
LacksOnlyPrefix(m) ==
    /\ m # <<>>
    /\ \A i \in 1..Len(m) : m[i] # NL /\ m[i] # ":"
    /\ ~isValidCommitMessage(m)
    /\ isValidCommitMessage(Chars("fix: ") \o m)

\* m keeps a visible character once the white space around it and one backtick
\* at each end are taken away
HasText(m) == TrimSpace(TrimSuffix(TrimPrefix(TrimSpace(m), <<BT>>), <<BT>>)) # <<>>

\* the last iteration of the loop of AICommit on the response m
LastAttempt(m) == attemptOutcome(maxAttempts, [ok |-> TRUE, text |-> m, err |-> <<>>])

\* C14 as stated: every non-empty single line that lacks only the type prefix is
\* valid once repaired, and AICommit succeeds when attempt 3 produced it
C14_RepairedPlainLineIsValid ==
    (entry = "fixCommonCommitMessageIssues" /\ fnRes # <<>> /\ LacksOnlyPrefix(fnArg))
        => /\ isValidCommitMessage(fnRes[1])
           /\ cleanCommitMessage(fnArg) = fnArg => LastAttempt(fnArg).ok

\* C14 amended: every non-empty single line that lacks only the type prefix and
\* is more than white space and one backtick at each end is valid once repaired,
\* and AICommit returns the repaired line when attempt 3 produced it
C14_RepairedTextLineIsValid ==
    (/\ entry = "fixCommonCommitMessageIssues" /\ fnRes # <<>>
     /\ LacksOnlyPrefix(fnArg) /\ HasText(fnArg))
        => /\ isValidCommitMessage(fnRes[1])
           /\ cleanCommitMessage(fnArg) = fnArg
                => LastAttempt(fnArg).ok /\ LastAttempt(fnArg).text = fnRes[1]

C14_Witness ==
    /\ entry = "fixCommonCommitMessageIssues"
    /\ fnArg = Chars("added login flag")
    /\ LacksOnlyPrefix(fnArg) /\ HasText(fnArg)
    /\ fnRes = <<Chars("fix:  added login flag")>>
    /\ LastAttempt(fnArg).ok

\* the prompt returned a line in this step
LineRead == entry = "shell" /\ reads' = reads + 1 /\ readErr' = <<>>

\* a line that is not empty once trimmed is appended once, in the step that reads
\* it; an empty one appends nothing and dispatches nothing; no other step appends
HistoryStep ==
    /\ (LineRead /\ line' # <<>>) => history' = Append(history, line')
    /\ (LineRead /\ line' = <<>>) =>
          /\ history' = history /\ pc' = "Reading" /\ route' = "none"
          /\ lineAsk' = 0 /\ lineExec' = 0 /\ execCmd' = <<>>
    /\ ~LineRead => history' = history

\* the history holds trimmed non-empty lines only, and holds the current line
\* whenever the loop has dispatched it
HistoryHoldsDispatched ==
    entry = "shell" =>
        /\ \A i \in 1..Len(history) :
              history[i] # <<>> /\ TrimSpace(history[i]) = history[i]
        /\ route # "none" => (history # <<>> /\ history[Len(history)] = line)

\* C15: every line that is not empty after trimming is appended to the history
\* exactly once, before it is dispatched and whatever becomes of it; an empty
\* line appends nothing and dispatches nothing
C15_EveryLineRecordedOnce == [][HistoryStep]_vars /\ []HistoryHoldsDispatched

C15_Witness ==
    /\ entry = "shell" /\ pc = "Reading" /\ reads = 2
    /\ history = <<Chars("!rm -rf /"), Chars("list my files")>>
    /\ gate = NoGate /\ lineAsk = 1 /\ report = "Error"

\* C16: once the interactive session has ended, by the exit command too, the
\* history log holds the history of the session
C16_HistorySavedAtEnd == (entry = "shell" /\ exitCode # <<>>) => histFile = history

\* nothing is run, asked or returned after an abort, and another error of the
\* prompt ends the loop with that error as the result of handleShell
PromptErrorOutcome ==
    entry = "shell" =>
        /\ readErr = <<ErrPromptAborted>> =>
              /\ pc = "Reading" /\ exitCode = <<>> /\ result = <<>>
              /\ route = "none" /\ lineAsk = 0 /\ lineExec = 0 /\ execCmd = <<>>
        /\ (readErr # <<>> /\ readErr # <<ErrPromptAborted>>) =>
              /\ pc = "Done"
              /\ result = <<[ok |-> FALSE, text |-> readErr[1]]>>

\* C17: an aborted read is swallowed (nothing appended, nothing dispatched, the
\* loop is at the prompt again); any other read error ends the loop and is
\* returned to the caller
C17_AbortContinuesErrorReturns ==
    /\ []PromptErrorOutcome
    /\ [][readErr' # <<>> => history' = history]_vars

C17_Witness ==
    /\ entry = "shell" /\ readErr = <<ErrPromptAborted>> /\ report = "^C"
    /\ reads = 2 /\ history = <<Chars("help")>> /\ pc = "Reading"

\* C18: when a read error other than an abort ends the shell, the exit status
\* of the process is not zero
C18_ReadErrorExitsNonZero ==
    (entry = "shell" /\ readErr # <<>> /\ readErr # <<ErrPromptAborted>>)
        => (exitCode # <<>> /\ exitCode[1] # 0)

\* the response that was printed as an answer
PrintedResponse == Join([i \in 1..Len(printed) |-> printed[i].text], Fence)

\* C19: a response that begins with "Command: " once trimmed is a command
\* directive, never printed as an answer
C19_TrimmedCommandPrefixIsDirective ==
    printed # <<>> => ~HasPrefix(TrimSpace(PrintedResponse), CommandPrefix)

\* the lines of the trimmed response
TrimmedLines(r) == Split(TrimSpace(r), <<NL>>)

\* the response opens with a fence, its last line is a fence, and it has more
\* than two lines
FullyFenced(r) ==
    LET lines == TrimmedLines(r)
    IN  /\ HasPrefix(lines[1], Fence)
        /\ TrimSpace(lines[Len(lines)]) = Fence
        /\ Len(lines) > 2

\* C20: the extraction drops the first and the last line only of a response of
\* more than two lines with an opening and a closing fence; of any other
\* response it returns the trimmed response, all lines kept
C20_StripsOnlyFullyFenced ==
    (entry = "cleanCodeResponse" /\ fnRes # <<>>) =>
        fnRes[1] = IF FullyFenced(fnArg)
                   THEN Join(SubSeq(TrimmedLines(fnArg), 2, Len(TrimmedLines(fnArg)) - 1),
                             <<NL>>)
                   ELSE TrimSpace(fnArg)

\* C21: within one AICommit call the repairer runs at most once, only on the
\* invalid message of attempt 3: never after attempt 1 or 2, never after a valid
\* message, never after a failed askAI call
C21_RepairOnceAfterLastAttempt ==
    entry = "aicommit" =>
        /\ Len(repairLog) <= 1
        /\ repairLog # <<>> =>
              /\ Len(askLog) = 3 /\ Len(candidates) = 3 /\ ~AskFailed
              /\ repairLog[1] = candidates[3]
              /\ \A k \in 1..3 : ~isValidCommitMessage(candidates[k])
              /\ Returned
        /\ (Len(candidates) < 3 \/ AskFailed) => repairLog = <<>>
        /\ (candidates # <<>> /\ isValidCommitMessage(candidates[Len(candidates)]))
              => repairLog = <<>>

C21_Witness ==
    /\ Returned /\ result[1].ok
    /\ repairLog = <<Chars("added login flag")>>
    /\ candidates[3] = Chars("added login flag")
    /\ candidates[1] = Chars("feat(x):")
    /\ result[1].text = Chars("fix:  added login flag")

\* the names of the built-in commands, in upper case
BuiltinNamesUpper == { Chars("HELP"), Chars("EXIT"), Chars("CLEAR"), Chars("CD") }

\* the route the classification order gives a non-empty trimmed line
ClaimedRoute(l) ==
    IF ToUpper(Fields(l)[1]) \in BuiltinNamesUpper THEN "builtin"
    ELSE IF l[1] = "!" THEN "raw"
    ELSE "ai"

\* C22: a line whose first token is, whatever its case, the name of a built-in
\* runs the built-in and nothing else; otherwise a line that starts with "!" goes
\* to raw execution of the rest of the line, trimmed; otherwise the whole line is
\* sent to askAI; a non-empty line takes exactly one of the three routes
C22_ClassificationOrder ==
    (entry = "shell" /\ line # <<>>) =>
        /\ route = ClaimedRoute(line)
        /\ route = "builtin" =>
              gate = NoGate /\ lineAsk = 0 /\ lineExec = 0 /\ execCmd = <<>>
        /\ route = "raw" =>
              /\ gate.called /\ gate.arg = TrimSpace(Tail(line))
              /\ lineAsk = 0
              /\ execCmd # <<>> => execCmd = <<TrimSpace(Tail(line))>>
        /\ route = "ai" =>
              lineAsk = 1 /\ askLog # <<>> /\ askLog[Len(askLog)] = line

C22_Witness ==
    /\ entry = "shell" /\ reads = 2
    /\ history = <<Chars("list my files"), Chars("! echo hi")>>
    /\ askLog = <<Chars("list my files")>>
    /\ route = "raw" /\ execCmd = <<Chars("echo hi")>> /\ pc = "Executing"

\* what the loop prints for an error it recovers from
RecoverableReports ==
    { "Invalid or potentially unsafe command.", "Error", "Command failed",
      "builtin error" }

\* C23: the loop is left only by the exit built-in or by a read error other than
\* an abort; a rejected command, a failed askAI call, a failed child process and
\* a failed built-in are reported and the loop is at the prompt again
C23_LoopLeftOnlyByExitOrReadError ==
    entry = "shell" =>
        /\ pc \in {"Start", "Reading", "AwaitAI", "Executing", "Exited", "Done"}
        /\ pc = "Exited" =>
              /\ route = "builtin" /\ ToUpper(Fields(line)[1]) = Chars("EXIT")
              /\ readErr = <<>>
        /\ pc = "Done" => (readErr # <<>> /\ readErr # <<ErrPromptAborted>>)
        /\ exitCode # <<>> => pc \in {"Exited", "Done"}
        /\ (report \in RecoverableReports /\ readErr = <<>>) =>
              (pc = "Reading" /\ exitCode = <<>>)

C23_Witness ==
    /\ entry = "shell" /\ pc = "Reading" /\ reads = 2 /\ exitCode = <<>>
    /\ history = <<Chars("!rm -rf /"), Chars("!ls -la")>>
    /\ report = "Command failed"

\* the three precondition failures and the error of each
NotInWorkTree == ~git.repo

NothingStaged == git.repo /\ git.statusOk /\ git.status = <<>>

EmptyStagedDiff ==
    git.repo /\ git.statusOk /\ git.status # <<>> /\ git.diffOk /\ git.diff = <<>>

PreconditionFailures ==
    << [failed |-> NotInWorkTree, error |-> Chars("not a git repository")],
       [failed |-> NothingStaged, error |-> Chars("no staged changes to commit")],
       [failed |-> EmptyStagedDiff, error |-> Chars("no changes to commit")] >>

\* C24: when a precondition of AICommit fails (not in a work tree, nothing staged,
\* empty staged diff) AICommit returns an error without any askAI call, and the
\* three failures give three different errors
C24_PreconditionFailureIsTerminal ==
    entry = "aicommit" =>
        \A i \in 1..3 :
            PreconditionFailures[i].failed =>
                /\ askLog = <<>> /\ candidates = <<>> /\ attempt = 0
                /\ pc \in {"Start", "Done"}
                /\ pc = "Done" =>
                      /\ result = <<[ok |-> FALSE, text |-> PreconditionFailures[i].error]>>
                      /\ \A j \in 1..3 :
                            j # i => result[1].text # PreconditionFailures[j].error

C24_Witness ==
    /\ Returned /\ EmptyStagedDiff /\ askLog = <<>>
    /\ result = <<[ok |-> FALSE, text |-> Chars("no changes to commit")]>>

\* C25: the askAI call of attempt 1 carries the full prompt (branch name, staged
\* file list, diff); every call of attempt 2 or 3 carries the stricter prompt
\* with the diff only; neither prompt is sent in the other's place
C25_FullPromptFirstStrictAfter ==
    entry = "aicommit" =>
        \A k \in 1..Len(askLog) :
            IF k = 1
            THEN /\ askLog[k].kind = "full"
                 /\ askLog[k].branch = (IF git.branchOk THEN TrimSpace(git.branch) ELSE <<>>)
                 /\ askLog[k].status = TrimSpace(git.status)
                 /\ askLog[k].diff = git.diff
            ELSE /\ askLog[k].kind = "strict"
                 /\ askLog[k].branch = <<>> /\ askLog[k].status = <<>>
                 /\ askLog[k].diff = git.diff

C25_Witness ==
    /\ Returned /\ Len(askLog) = 3 /\ git.branchOk
    /\ askLog[1].kind = "full" /\ askLog[1].branch = Chars("main")
    /\ askLog[2].kind = "strict" /\ askLog[3].kind = "strict"
    /\ askLog[3].diff = Chars("+fmt.Println(1)\n")

RECURSIVE CountFences(_)
\* the number of fence markers of s, read from left to right
CountFences(s) ==
    IF s = <<>> THEN 0
    ELSE IF HasPrefix(s, Fence) THEN 1 + CountFences(From(s, 3))
    ELSE CountFences(Tail(s))

RECURSIVE StripFences(_)
\* s without its fence markers
StripFences(s) ==
    IF s = <<>> THEN <<>>
    ELSE IF HasPrefix(s, Fence) THEN StripFences(From(s, 3))
    ELSE <<Head(s)>> \o StripFences(Tail(s))

RECURSIVE Concat(_)
Concat(segs) == IF segs = <<>> THEN <<>> ELSE Head(segs).text \o Concat(Tail(segs))

\* C26: an answer that is no command directive and holds a fence marker is split
\* at the markers into segments kept in order, of which exactly those at an odd
\* 0-based index are code; with an even number (2 or more) of markers the
\* segments put together are the answer without its markers
C26_FenceSegmentsAlternate ==
    (/\ entry = "handleResponse" /\ fnRes # <<>>
     /\ ~HasPrefix(TrimSpace(fnArg), CommandPrefix)
     /\ CountFences(fnArg) >= 1)
        => LET segs == fnRes[1].segs
               n == CountFences(fnArg)
           IN  /\ fnRes[1].kind = "code" /\ fnRes[1].run = <<>>
               /\ Len(segs) = n + 1
               /\ \A i \in 1..Len(segs) :
                     /\ segs[i].code <=> ((i - 1) % 2 = 1)
                     /\ CountFences(segs[i].text) = 0
               /\ Join([i \in 1..Len(segs) |-> segs[i].text], Fence) = fnArg
               /\ (n >= 2 /\ n % 2 = 0) => Concat(segs) = StripFences(fnArg)

C26_Witness ==
    /\ entry = "handleResponse"
    /\ fnArg = Chars("Run ") \o Fence \o Chars("ls -la\n") \o Fence \o Chars("Run ")
    /\ fnRes # <<>>
    /\ fnRes[1].segs = << [code |-> FALSE, text |-> Chars("Run ")],
                          [code |-> TRUE, text |-> Chars("ls -la\n")],
                          [code |-> FALSE, text |-> Chars("Run ")] >>

\* per line: at most one askAI call and one executeCommand call, none of the
\* first for a built-in or a "!" line, none of the second for a printed answer
CallsPerLine ==
    entry = "shell" =>
        /\ lineAsk <= 1 /\ lineExec <= 1
        /\ pc = "AwaitAI" => (lineAsk = 1 /\ lineExec = 0)
        /\ pc = "Executing" => (lineExec = 1 /\ execCmd # <<>>)
        /\ (line # <<>> /\ ClaimedRoute(line) \in {"builtin", "raw"}) => lineAsk = 0
        /\ report \in {"text", "code"} => (lineExec = 0 /\ execCmd = <<>>)

\* the prompt returns only when no call of the line before is pending
ReadsWhenIdle ==
    (entry = "shell" /\ reads' = reads + 1) => (pc = "Reading" /\ execCmd = <<>>)

\* C27: a line triggers at most one askAI call and at most one executeCommand
\* call, all finished before the next line is read; a built-in or "!" line
\* triggers no askAI call, an answer printed as text or code no executeCommand call
C27_OneCallOfEachPerLine == []CallsPerLine /\ [][ReadsWhenIdle]_vars

C27_Witness ==
    /\ entry = "shell" /\ pc = "Reading" /\ reads = 2
    /\ history = <<Chars("!ls -la"), Chars("list my files")>>
    /\ lineAsk = 1 /\ lineExec = 1 /\ report = "command done"

\* C28: every program started for a command string that the allowlist accepted
\* is an allowlisted program, also when later words of the string hold shell
\* operators
C28_StartedProgramsAllowlisted ==
    (execCmd # <<>> /\ gate.called /\ gate.ok /\ gate.arg = execCmd[1])
        => executeCommand(execCmd[1]) \subseteq ListedPrograms

=============================================================================
